---- MODULE Spec2Model ----
(***************************************************************************)
(* Visibility and access control of the dog-daycare record backend:        *)
(* walk reports (app/api/v1/routers/walk_reports.py), health records       *)
(* (app/api/v1/routers/health_records.py) and certificates                 *)
(* (app/api/v1/routers/certificates.py, app/services/certificate_service). *)
(* Every request handler is one action; the last request and its response  *)
(* are kept in resp.  Where the queries of one request are told apart, the *)
(* request is kept in listing and each query is one action.                *)
(***************************************************************************)
EXTENDS Integers, Sequences, FiniteSets, TLC

VARIABLES
    reports,         \* table of WalkReport rows: id -> row
    health_records,  \* table of HealthRecord rows: id -> row
    certificates,    \* table of Certificate rows: id -> row
    dogs,            \* table of Dog rows: id -> owner_id
    resp,            \* the last request with its response
    listing          \* a list_health_records request between its queries

vars == <<reports, health_records, certificates, dogs, resp, listing>>

(***************************************************************************)
(* Bounds of the model.                                                    *)
(***************************************************************************)
MaxReports == 2      \* walk report ids are 1..MaxReports
MaxTime == 2         \* created_at values are 1..MaxTime
MaxRecords == 2      \* health record ids are 1..MaxRecords
MaxDate == 2         \* record_date values are 1..MaxDate
MaxCerts == 2        \* certificate ids are 1..MaxCerts
MaxPage == 2         \* requested pages are 1..MaxPage
MaxSize == 2         \* requested page sizes are 1..MaxSize
MaxRows == 3         \* ids of the rows of SpecPaging are 1..MaxRows

\* skip: int = Query(0, ge=0) and limit: int = Query(100, ge=1, le=1000)
DefaultSkip == 0
DefaultLimit == 100

\* page: int = Query(1, ge=1) and size: int = Query(10, ge=1, le=100)
DefaultPage == 1
DefaultSize == 10

\* le=100 of size and le=1000 of limit
SizeLimit == 100
LimitLimit == 1000

ReportIds == 1..MaxReports
RecordIds == 1..MaxRecords
CertIds == 1..MaxCerts
Dates == 1..MaxDate
Times == 1..MaxTime
Pages == 1..MaxPage
Sizes == 1..MaxSize
PagedIds == 1..MaxRows

(***************************************************************************)
(* Principals, owners, events and participants: rows of the tables the     *)
(* handlers query but never write.                                         *)
(***************************************************************************)
UserRole == {"USER", "ADMIN", "SUPER_ADMIN"}

Users == {"u1", "u2", "u3", "a1", "s1"}

Role(user) ==
    CASE user = "a1" -> "ADMIN"
      [] user = "s1" -> "SUPER_ADMIN"
      [] OTHER -> "USER"

\* Owner rows: u1 and u3 (and the admin a1) have a linked Owner, u2 and s1 none.
Owners ==
    { [id |-> "o1", user_id |-> "u1"],
      [id |-> "o2", user_id |-> "a1"],
      [id |-> "o3", user_id |-> "u3"] }

\* WalkEvent rows.
WalkEvents ==
    { [id |-> "e1", created_by_user_id |-> "a1"],
      [id |-> "e2", created_by_user_id |-> "u2"] }

ParticipantStatus == {"PENDING", "APPROVED", "REJECTED"}

\* WalkParticipant rows.
WalkParticipants ==
    { [event_id |-> "e1", owner_id |-> "o1", status |-> "APPROVED"],
      [event_id |-> "e1", owner_id |-> "o3", status |-> "PENDING"],
      [event_id |-> "e2", owner_id |-> "o1", status |-> "REJECTED"] }

\* Event ids a request may name; "e0" names no event.
EventIds == {"e0", "e1", "e2"}

ReportStatus == {"DRAFT", "PUBLIC", "PRIVATE"}

Titles == {"t1", "t2"}

\* An Optional query parameter or patch field that was not given.
None == "none"

\* A JSON null given for an Optional field of a request body: unlike a field
\* that was not given, exclude_unset=True keeps it.
Null == "null"

\* An Optional date that was not given (date_from, date_to: Query(None)).
NoDate == 0

\* Dog ids a request may name; "d0" names no dog.
DogIds == {"d0", "d1", "d2"}

(***************************************************************************)
(* Helpers of the walk report router.                                      *)
(***************************************************************************)
\* current_user.role in [UserRole.ADMIN, UserRole.SUPER_ADMIN]
IsAdmin(user) == Role(user) \in {"ADMIN", "SUPER_ADMIN"}

\* db.query(WalkEvent).filter(WalkEvent.id == event_id).first()
EventRows(event_id) == {e \in WalkEvents : e.id = event_id}

\* user.owner
UserOwner(user) == {o \in Owners : o.user_id = user}

\* Variant of can_create_report that forgets the APPROVED status filter.
can_create_report_NoApproval(user, event_id) ==
    \/ IsAdmin(user)
    \/ \E e \in EventRows(event_id) : e.created_by_user_id = user
    \/ \E o \in UserOwner(user) : \E p \in WalkParticipants :
          /\ p.event_id = event_id
          /\ p.owner_id = o.id

\* _can_create_report
can_create_report(user, event_id) ==
    \/ IsAdmin(user)
    \/ \E e \in EventRows(event_id) : e.created_by_user_id = user
    \/ \E o \in UserOwner(user) : \E p \in WalkParticipants :
          /\ p.event_id = event_id
          /\ p.owner_id = o.id
          /\ p.status = "APPROVED"

\* Variant of can_view_report that also lets whoever may write for the event see it.
can_view_report_Participant(user, report) ==
    \/ report.status = "PUBLIC"
    \/ IsAdmin(user)
    \/ report.author_user_id = user
    \/ can_create_report(user, report.walk_event_id)

\* _can_view_report
can_view_report(user, report) ==
    \/ report.status = "PUBLIC"
    \/ IsAdmin(user)
    \/ report.author_user_id = user

\* Variant of the update check that lets an admin through, as delete does.
can_update_report_Admin(user, report) ==
    report.author_user_id = user \/ IsAdmin(user)

\* The permission check of update_walk_report: only the author.
can_update_report(user, report) ==
    report.author_user_id = user

\* Variant of the delete check that lets only the author through, as update does.
can_delete_report_AuthorOnly(user, report) ==
    report.author_user_id = user

\* The permission check of delete_walk_report: the author or an admin.
can_delete_report(user, report) ==
    ~ (report.author_user_id # user /\ ~ IsAdmin(user))

(***************************************************************************)
(* Walk report handlers.                                                   *)
(***************************************************************************)
\* Variant that records the creator of the event as the author.
create_walk_report_EventAuthor(user, event_id, title, status, now, id) ==
    /\ IF EventRows(event_id) = {}
       THEN /\ resp' = [op |-> "create_walk_report", user |-> user,
                        walk_event_id |-> event_id, code |-> 404]
            /\ UNCHANGED reports
       ELSE IF ~ can_create_report(user, event_id)
       THEN /\ resp' = [op |-> "create_walk_report", user |-> user,
                        walk_event_id |-> event_id, code |-> 403]
            /\ UNCHANGED reports
       ELSE /\ id \notin DOMAIN reports
            /\ reports' = [i \in DOMAIN reports \cup {id} |->
                             IF i = id
                             THEN [walk_event_id |-> event_id,
                                   author_user_id |->
                                      (CHOOSE e \in EventRows(event_id) :
                                          TRUE).created_by_user_id,
                                   title |-> title,
                                   status |-> status,
                                   created_at |-> now]
                             ELSE reports[i]]
            /\ resp' = [op |-> "create_walk_report", user |-> user,
                        walk_event_id |-> event_id, code |-> 200, id |-> id]
    /\ UNCHANGED <<health_records, certificates, dogs, listing>>

create_walk_report(user, event_id, title, status, now, id) ==
    /\ IF EventRows(event_id) = {}
       THEN /\ resp' = [op |-> "create_walk_report", user |-> user,
                        walk_event_id |-> event_id, code |-> 404]
            /\ UNCHANGED reports
       ELSE IF ~ can_create_report(user, event_id)
       THEN /\ resp' = [op |-> "create_walk_report", user |-> user,
                        walk_event_id |-> event_id, code |-> 403]
            /\ UNCHANGED reports
       ELSE /\ id \notin DOMAIN reports
            /\ reports' = [i \in DOMAIN reports \cup {id} |->
                             IF i = id
                             THEN [walk_event_id |-> event_id,
                                   author_user_id |-> user,
                                   title |-> title,
                                   status |-> status,
                                   created_at |-> now]
                             ELSE reports[i]]
            /\ resp' = [op |-> "create_walk_report", user |-> user,
                        walk_event_id |-> event_id, code |-> 200, id |-> id]
    /\ UNCHANGED <<health_records, certificates, dogs, listing>>

get_walk_report(user, report_id) ==
    /\ IF report_id \notin DOMAIN reports
       THEN resp' = [op |-> "get_walk_report", user |-> user,
                     id |-> report_id, code |-> 404]
       ELSE IF ~ can_view_report(user, reports[report_id])
       THEN resp' = [op |-> "get_walk_report", user |-> user,
                     id |-> report_id, code |-> 403]
       ELSE resp' = [op |-> "get_walk_report", user |-> user,
                     id |-> report_id, code |-> 200,
                     body |-> reports[report_id]]
    /\ UNCHANGED <<reports, health_records, certificates, dogs, listing>>

\* report_update.dict(exclude_unset=True) applied field by field.
ApplyUpdate(report, patch) ==
    [report EXCEPT
        !.title = IF patch.title = None THEN @ ELSE patch.title,
        !.status = IF patch.status = None THEN @ ELSE patch.status]

\* title and status are nullable=False.
report_not_null(report) == report.title # Null /\ report.status # Null

\* Variant that writes the assigned fields one by one and stops at the first
\* one the table refuses.
commit_report_Partial(old, new) ==
    IF new.title = Null THEN old
    ELSE IF new.status = Null THEN [old EXCEPT !.title = new.title]
    ELSE new

\* db.commit() of the assigned fields: one UPDATE of the row, which the
\* table refuses as a whole when a NOT NULL column would become NULL; the
\* exception leaves the handler and get_db closes the session, which rolls
\* the transaction back.
commit_report(old, new) == IF report_not_null(new) THEN new ELSE old

update_walk_report(user, report_id, patch) ==
    /\ IF report_id \notin DOMAIN reports
       THEN /\ resp' = [op |-> "update_walk_report", user |-> user,
                        id |-> report_id, code |-> 404]
            /\ UNCHANGED reports
       ELSE IF ~ can_update_report(user, reports[report_id])
       THEN /\ resp' = [op |-> "update_walk_report", user |-> user,
                        id |-> report_id, code |-> 403]
            /\ UNCHANGED reports
       ELSE /\ reports' = [reports EXCEPT
                  ![report_id] = commit_report(@, ApplyUpdate(@, patch))]
            /\ resp' = IF report_not_null(
                              ApplyUpdate(reports[report_id], patch))
                       THEN [op |-> "update_walk_report", user |-> user,
                             id |-> report_id, code |-> 200,
                             body |-> reports'[report_id]]
                       ELSE [op |-> "update_walk_report", user |-> user,
                             id |-> report_id, code |-> 500,
                             patch |-> patch]
    /\ UNCHANGED <<health_records, certificates, dogs, listing>>

delete_walk_report(user, report_id) ==
    /\ IF report_id \notin DOMAIN reports
       THEN /\ resp' = [op |-> "delete_walk_report", user |-> user,
                        id |-> report_id, code |-> 404]
            /\ UNCHANGED reports
       ELSE IF ~ can_delete_report(user, reports[report_id])
       THEN /\ resp' = [op |-> "delete_walk_report", user |-> user,
                        id |-> report_id, code |-> 403]
            /\ UNCHANGED reports
       ELSE /\ reports' = [i \in DOMAIN reports \ {report_id} |-> reports[i]]
            /\ resp' = [op |-> "delete_walk_report", user |-> user,
                        id |-> report_id, code |-> 200]
    /\ UNCHANGED <<health_records, certificates, dogs, listing>>

(***************************************************************************)
(* Ordering and paging of a query.                                         *)
(***************************************************************************)
\* The sequences that hold every element of S exactly once.
Arrangements(S) ==
    {f \in [1..Cardinality(S) -> S] :
        \A i, j \in 1..Cardinality(S) : i # j => f[i] # f[j]}

\* query.order_by(...).all(): the rows of S in an order the ORDER BY allows.
\* <<a, b>> \in before says the ORDER BY puts row a strictly before row b; rows
\* that it does not tell apart come back in any order the store likes.
Orderings(S, before) ==
    {f \in Arrangements(S) :
        \A i, j \in 1..Cardinality(S) : i < j => <<f[j], f[i]>> \notin before}

\* Variant that counts the limit from the first row it returns, inclusive.
Window_Inclusive(rows, offset, limit) ==
    SubSeq(rows, offset + 1,
           IF offset + limit + 1 < Len(rows)
           THEN offset + limit + 1 ELSE Len(rows))

\* query.offset(offset).limit(limit).all()
Window(rows, offset, limit) ==
    SubSeq(rows, offset + 1,
           IF offset + limit < Len(rows) THEN offset + limit ELSE Len(rows))

\* Variant that rounds the quotient down.
PageCount_Floor(total, size) ==
    IF total > 0 THEN total \div size ELSE 1

\* math.ceil(total / size) if total > 0 else 1
PageCount(total, size) ==
    IF total > 0
    THEN (IF total % size = 0 THEN total \div size ELSE (total \div size) + 1)
    ELSE 1

\* ORDER BY created_at DESC
ReportOrder ==
    {<<a, b>> \in (DOMAIN reports) \X (DOMAIN reports) :
        reports[a].created_at > reports[b].created_at}

(***************************************************************************)
(* Walk report lists.                                                      *)
(***************************************************************************)
\* Variant in which a given status filter replaces the visibility disjunction.
user_report_filter_StatusOnly(user, report, status_filter) ==
    IF status_filter # None
    THEN report.status = status_filter
    ELSE report.status = "PUBLIC" \/ report.author_user_id = user

\* The filter of list_walk_reports for a caller who is no admin.
user_report_filter(user, report, status_filter) ==
    IF status_filter # None
    THEN /\ report.status = "PUBLIC" \/ report.author_user_id = user
         /\ report.status = status_filter
    ELSE report.status = "PUBLIC" \/ report.author_user_id = user

\* The ids of the rows the query of list_walk_reports matches.
list_walk_reports_query(user, walk_event_id, status_filter) ==
    {i \in DOMAIN reports :
        /\ walk_event_id # None => reports[i].walk_event_id = walk_event_id
        /\ IF IsAdmin(user)
           THEN status_filter # None => reports[i].status = status_filter
           ELSE user_report_filter(user, reports[i], status_filter)}

list_walk_reports(user, walk_event_id, status_filter, page, size) ==
    /\ \E rows \in Orderings(
              list_walk_reports_query(user, walk_event_id, status_filter),
              ReportOrder) :
          resp' = [op |-> "list_walk_reports", user |-> user,
                   walk_event_id |-> walk_event_id, status |-> status_filter,
                   code |-> 200,
                   items |-> Window(rows, (page - 1) * size, size),
                   total |-> Len(rows),
                   page |-> page, size |-> size,
                   asked |-> [page |-> page, size |-> size],
                   pages |-> PageCount(Len(rows), size)]
    /\ UNCHANGED <<reports, health_records, certificates, dogs, listing>>

\* Variant that shows a caller who is no admin the PUBLIC reports only.
list_event_reports_query_PublicOnly(user, event_id) ==
    {i \in DOMAIN reports :
        /\ reports[i].walk_event_id = event_id
        /\ ~ IsAdmin(user) => reports[i].status = "PUBLIC"}

\* The ids of the rows the query of list_event_reports matches.
list_event_reports_query(user, event_id) ==
    {i \in DOMAIN reports :
        /\ reports[i].walk_event_id = event_id
        /\ ~ IsAdmin(user) =>
              (reports[i].status = "PUBLIC" \/ reports[i].author_user_id = user)}

list_event_reports(user, event_id, page, size) ==
    /\ IF EventRows(event_id) = {}
       THEN resp' = [op |-> "list_event_reports", user |-> user,
                     walk_event_id |-> event_id, code |-> 404]
       ELSE \E rows \in Orderings(list_event_reports_query(user, event_id),
                                  ReportOrder) :
               resp' = [op |-> "list_event_reports", user |-> user,
                        walk_event_id |-> event_id, code |-> 200,
                        items |-> Window(rows, (page - 1) * size, size),
                        total |-> Len(rows),
                        page |-> page, size |-> size,
                        asked |-> [page |-> page, size |-> size],
                        pages |-> PageCount(Len(rows), size)]
    /\ UNCHANGED <<reports, health_records, certificates, dogs, listing>>

(***************************************************************************)
(* Health records.                                                         *)
(***************************************************************************)
\* Variant of get_user_dogs that treats a user without Owner like an admin.
get_user_dogs_NoOwnerAll(user) ==
    IF IsAdmin(user) \/ UserOwner(user) = {}
    THEN DOMAIN dogs
    ELSE {d \in DOMAIN dogs : \E owner \in UserOwner(user) : dogs[d] = owner.id}

\* The ids of the dogs get_user_dogs returns.
get_user_dogs(user) ==
    IF IsAdmin(user)
    THEN DOMAIN dogs
    ELSE IF UserOwner(user) = {}
    THEN {}
    ELSE {d \in DOMAIN dogs : \E owner \in UserOwner(user) : dogs[d] = owner.id}

\* Variant of check_dog_access that only asks whether the dog exists.
check_dog_access_AnyDog(user, dog_id) == dog_id \in DOMAIN dogs

check_dog_access(user, dog_id) == dog_id \in get_user_dogs(user)

\* Variant of the role check that also lets a dog owner through.
can_create_health_record_Owner(user) ==
    IsAdmin(user) \/ get_user_dogs(user) # {}

\* The role check that opens create_health_record.
can_create_health_record(user) ==
    ~ (Role(user) \notin {"ADMIN", "SUPER_ADMIN"})

create_health_record(user, dog_id, record_date, id) ==
    /\ IF ~ can_create_health_record(user)
       THEN /\ resp' = [op |-> "create_health_record", user |-> user,
                        dog_id |-> dog_id, code |-> 403]
            /\ UNCHANGED health_records
       ELSE IF dog_id \notin DOMAIN dogs
       THEN /\ resp' = [op |-> "create_health_record", user |-> user,
                        dog_id |-> dog_id, code |-> 404]
            /\ UNCHANGED health_records
       ELSE /\ id \notin DOMAIN health_records
            /\ health_records' =
                  [i \in DOMAIN health_records \cup {id} |->
                      IF i = id
                      THEN [dog_id |-> dog_id,
                            record_date |-> record_date,
                            author_user_id |-> user]
                      ELSE health_records[i]]
            /\ resp' = [op |-> "create_health_record", user |-> user,
                        dog_id |-> dog_id, code |-> 200, id |-> id]
    /\ UNCHANGED <<reports, certificates, dogs, listing>>

\* The ids of the rows the query of list_health_records matches.
list_health_records_query(user, dog_id, date_from, date_to) ==
    {i \in DOMAIN health_records :
        /\ Role(user) = "USER" => health_records[i].dog_id \in get_user_dogs(user)
        /\ dog_id # None => health_records[i].dog_id = dog_id
        /\ date_from # NoDate => health_records[i].record_date >= date_from
        /\ date_to # NoDate => health_records[i].record_date <= date_to}

\* ORDER BY record_date DESC, id DESC
RecordOrder ==
    {<<a, b>> \in (DOMAIN health_records) \X (DOMAIN health_records) :
        \/ health_records[a].record_date > health_records[b].record_date
        \/ /\ health_records[a].record_date = health_records[b].record_date
           /\ a > b}

list_health_records(user, dog_id, date_from, date_to, page, size) ==
    /\ IF Role(user) = "USER" /\ get_user_dogs(user) = {}
       THEN resp' = [op |-> "list_health_records", user |-> user,
                     dog_id |-> dog_id, date_from |-> date_from,
                     date_to |-> date_to, code |-> 200,
                     items |-> << >>, total |-> 0,
                     page |-> page, size |-> size,
                     asked |-> [page |-> page, size |-> size],
                     pages |-> 1]
       ELSE IF /\ dog_id # None
               /\ Role(user) = "USER"
               /\ ~ check_dog_access(user, dog_id)
       THEN resp' = [op |-> "list_health_records", user |-> user,
                     dog_id |-> dog_id, date_from |-> date_from,
                     date_to |-> date_to, code |-> 403]
       ELSE \E rows \in Orderings(
                   list_health_records_query(user, dog_id, date_from, date_to),
                   RecordOrder) :
               resp' = [op |-> "list_health_records", user |-> user,
                        dog_id |-> dog_id, date_from |-> date_from,
                        date_to |-> date_to, code |-> 200,
                        items |-> Window(rows, (page - 1) * size, size),
                        total |-> Len(rows),
                        page |-> page, size |-> size,
                        asked |-> [page |-> page, size |-> size],
                        pages |-> PageCount(Len(rows), size)]
    /\ UNCHANGED <<reports, health_records, certificates, dogs, listing>>

(***************************************************************************)
(* list_health_records query by query.  The session of a request           *)
(* (SessionLocal, autocommit=False) sets no isolation level and the store  *)
(* is whatever DATABASE_URL names, so a query of the request may see what  *)
(* other requests committed since its previous query.  The request in      *)
(* listing has no date filter.                                             *)
(***************************************************************************)
\* user_dogs = get_user_dogs(db, current_user); the early empty page; dog_ids
\* of the IN filter.
list_health_records_scope(user, dog_id, page, size) ==
    /\ listing.pc = "none"
    /\ listing' =
          [pc |-> IF Role(user) = "USER" /\ get_user_dogs(user) = {}
                  THEN "done" ELSE "access",
           user |-> user, dog_id |-> dog_id, page |-> page, size |-> size,
           dog_ids |-> IF Role(user) = "USER" THEN get_user_dogs(user) ELSE {},
           checked |-> FALSE, user_dogs |-> {},
           code |-> 200, items |-> << >>, total |-> 0, pages |-> 1]
    /\ UNCHANGED <<reports, health_records, certificates, dogs, resp>>

\* if dog_id: check_dog_access(db, current_user, dog_id), which calls
\* get_user_dogs again; user_dogs keeps what that call returned.
list_health_records_access ==
    /\ listing.pc = "access"
    /\ listing' =
          IF listing.dog_id # None /\ Role(listing.user) = "USER"
          THEN [listing EXCEPT
                  !.pc = IF check_dog_access(listing.user, listing.dog_id)
                         THEN "count" ELSE "done",
                  !.code = IF check_dog_access(listing.user, listing.dog_id)
                           THEN 200 ELSE 403,
                  !.checked = TRUE,
                  !.user_dogs = get_user_dogs(listing.user)]
          ELSE [listing EXCEPT !.pc = "count"]
    /\ UNCHANGED <<reports, health_records, certificates, dogs, resp>>

\* The rows the filters of the request in listing match in the table as it is.
listing_query ==
    {i \in DOMAIN health_records :
        /\ Role(listing.user) = "USER" =>
              health_records[i].dog_id \in listing.dog_ids
        /\ listing.dog_id # None => health_records[i].dog_id = listing.dog_id}

\* total = query.count()
list_health_records_count ==
    /\ listing.pc = "count"
    /\ listing' = [listing EXCEPT !.pc = "fetch",
                                  !.total = Cardinality(listing_query)]
    /\ UNCHANGED <<reports, health_records, certificates, dogs, resp>>

\* records = query.offset(offset).limit(size).all(), pages, the response.
list_health_records_fetch ==
    /\ listing.pc = "fetch"
    /\ \E rows \in Orderings(listing_query, RecordOrder) :
          listing' = [listing EXCEPT
                        !.pc = "done",
                        !.items = Window(rows,
                                         (listing.page - 1) * listing.size,
                                         listing.size),
                        !.pages = PageCount(listing.total, listing.size)]
    /\ UNCHANGED <<reports, health_records, certificates, dogs, resp>>

\* The response leaves the server; the request is over.
list_health_records_reply ==
    /\ listing.pc = "done"
    /\ listing' = [pc |-> "none"]
    /\ UNCHANGED <<reports, health_records, certificates, dogs, resp>>

\* Account provisioning gives a dog to another owner.
transfer_dog(dog_id, owner_id) ==
    /\ dog_id \in DOMAIN dogs
    /\ dogs[dog_id] # owner_id
    /\ dogs' = [dogs EXCEPT ![dog_id] = owner_id]
    /\ UNCHANGED <<reports, health_records, certificates, resp, listing>>

get_health_record(user, record_id) ==
    /\ IF record_id \notin DOMAIN health_records
       THEN resp' = [op |-> "get_health_record", user |-> user,
                     id |-> record_id, code |-> 404]
       ELSE IF /\ Role(user) = "USER"
               /\ ~ check_dog_access(user, health_records[record_id].dog_id)
       THEN resp' = [op |-> "get_health_record", user |-> user,
                     id |-> record_id, code |-> 403]
       ELSE resp' = [op |-> "get_health_record", user |-> user,
                     id |-> record_id, code |-> 200,
                     body |-> health_records[record_id]]
    /\ UNCHANGED <<reports, health_records, certificates, dogs, listing>>

(***************************************************************************)
(* Certificates.  A text is a sequence of characters; the empty text and   *)
(* NoDate are the filters that were not given, and NoDate in expires_on is *)
(* NULL.                                                                   *)
(***************************************************************************)
CertTypes == {"RABIES", "INSURANCE"}

Issuers == {<<"V", "e", "t">>, <<"C", "i", "t", "y">>}

Lower(c) ==
    CASE c = "V" -> "v"
      [] c = "C" -> "c"
      [] c = "T" -> "t"
      [] OTHER -> c

\* Certificate.issuer.ilike(f"%{issuer}%")
ILike(text, pattern) ==
    \E k \in 0..(Len(text) - Len(pattern)) :
        \A n \in 1..Len(pattern) : Lower(text[k + n]) = Lower(pattern[n])

\* Depends(get_current_admin_user): the routes marked "admin only".
get_current_admin_user(user) == IsAdmin(user)

create_certificate(user, certificate, id) ==
    /\ IF ~ get_current_admin_user(user)
       THEN /\ resp' = [op |-> "create_certificate", user |-> user, code |-> 403]
            /\ UNCHANGED certificates
       ELSE /\ id \notin DOMAIN certificates
            /\ certificates' = [i \in DOMAIN certificates \cup {id} |->
                                  IF i = id THEN certificate ELSE certificates[i]]
            /\ resp' = [op |-> "create_certificate", user |-> user,
                        code |-> 200, id |-> id]
    /\ UNCHANGED <<reports, health_records, dogs, listing>>

\* The ids of the rows the query of certificate_service.get_certificates matches.
get_certificates_query(dog_id, cert_type, issuer, expires_after, expires_before) ==
    {i \in DOMAIN certificates :
        /\ dog_id # None => certificates[i].dog_id = dog_id
        /\ cert_type # None => certificates[i].cert_type = cert_type
        /\ issuer # << >> => ILike(certificates[i].issuer, issuer)
        /\ expires_after # NoDate =>
              /\ certificates[i].expires_on # NoDate
              /\ certificates[i].expires_on >= expires_after
        /\ expires_before # NoDate =>
              /\ certificates[i].expires_on # NoDate
              /\ certificates[i].expires_on <= expires_before}

\* The router passes every authenticated caller on to the service, which
\* orders by nothing.
get_certificates(user, skip, limit, dog_id, cert_type, issuer, expires_after, expires_before) ==
    /\ \E rows \in Orderings(
              get_certificates_query(dog_id, cert_type, issuer,
                                     expires_after, expires_before), {}) :
          resp' = [op |-> "get_certificates", user |-> user,
                   dog_id |-> dog_id, cert_type |-> cert_type,
                   issuer |-> issuer, expires_after |-> expires_after,
                   expires_before |-> expires_before, code |-> 200,
                   items |-> Window(rows, skip, limit),
                   total |-> Len(rows),
                   page |-> IF limit > 0 THEN (skip \div limit) + 1 ELSE 1,
                   per_page |-> limit,
                   pages |-> IF limit > 0
                             THEN (Len(rows) + limit - 1) \div limit
                             ELSE 1]
    /\ UNCHANGED <<reports, health_records, certificates, dogs, listing>>

get_certificate(user, certificate_id) ==
    /\ IF certificate_id \notin DOMAIN certificates
       THEN resp' = [op |-> "get_certificate", user |-> user,
                     id |-> certificate_id, code |-> 404]
       ELSE resp' = [op |-> "get_certificate", user |-> user,
                     id |-> certificate_id, code |-> 200,
                     body |-> certificates[certificate_id]]
    /\ UNCHANGED <<reports, health_records, certificates, dogs, listing>>

\* certificate.model_dump(exclude_unset=True) applied field by field.
ApplyCertificateUpdate(certificate, patch) ==
    [certificate EXCEPT
        !.dog_id = IF patch.dog_id = None THEN @ ELSE patch.dog_id,
        !.expires_on = IF patch.expires_on = NoDate THEN @ ELSE patch.expires_on]

\* db.commit() in certificate_service.update_certificate: dog_id is
\* nullable=False, so the UPDATE that would make it NULL fails and nothing of
\* it is kept.
commit_certificate(old, new) == IF new.dog_id # Null THEN new ELSE old

update_certificate(user, certificate_id, patch) ==
    /\ IF ~ get_current_admin_user(user)
       THEN /\ resp' = [op |-> "update_certificate", user |-> user,
                        id |-> certificate_id, code |-> 403]
            /\ UNCHANGED certificates
       ELSE IF certificate_id \notin DOMAIN certificates
       THEN /\ resp' = [op |-> "update_certificate", user |-> user,
                        id |-> certificate_id, code |-> 404]
            /\ UNCHANGED certificates
       ELSE /\ certificates' = [certificates EXCEPT
                  ![certificate_id] =
                      commit_certificate(@, ApplyCertificateUpdate(@, patch))]
            /\ resp' = IF ApplyCertificateUpdate(certificates[certificate_id],
                                                 patch).dog_id # Null
                       THEN [op |-> "update_certificate", user |-> user,
                             id |-> certificate_id, code |-> 200,
                             body |-> certificates'[certificate_id]]
                       ELSE [op |-> "update_certificate", user |-> user,
                             id |-> certificate_id, code |-> 500,
                             patch |-> patch]
    /\ UNCHANGED <<reports, health_records, dogs, listing>>

delete_certificate(user, certificate_id) ==
    /\ IF ~ get_current_admin_user(user)
       THEN /\ resp' = [op |-> "delete_certificate", user |-> user,
                        id |-> certificate_id, code |-> 403]
            /\ UNCHANGED certificates
       ELSE IF certificate_id \notin DOMAIN certificates
       THEN /\ resp' = [op |-> "delete_certificate", user |-> user,
                        id |-> certificate_id, code |-> 404]
            /\ UNCHANGED certificates
       ELSE /\ certificates' = [i \in DOMAIN certificates \ {certificate_id} |->
                                  certificates[i]]
            /\ resp' = [op |-> "delete_certificate", user |-> user,
                        id |-> certificate_id, code |-> 200]
    /\ UNCHANGED <<reports, health_records, dogs, listing>>

(***************************************************************************)
(* The state after construction: empty tables, the two dogs of the         *)
(* fixture, no request served yet.                                         *)
(***************************************************************************)
Init ==
    /\ reports = << >>
    /\ health_records = << >>
    /\ certificates = << >>
    /\ dogs = [d \in {"d1", "d2"} |-> IF d = "d1" THEN "o1" ELSE "o2"]
    /\ resp = [op |-> "none"]
    /\ listing = [pc |-> "none"]

\* No request is being served: the last response has been sent.
Idle == resp.op = "none"

\* The response leaves the server; the request is over.
Respond ==
    /\ ~ Idle
    /\ resp' = [op |-> "none"]
    /\ UNCHANGED <<reports, health_records, certificates, dogs, listing>>

\* Request bodies.  A handler that answers 404 or 403 never reads the body, so
\* one body stands for all of them on those paths.
CreateBodies(user, event_id, TitleSet, TimeSet) ==
    IF EventRows(event_id) # {} /\ can_create_report(user, event_id)
    THEN TitleSet \X ReportStatus \X TimeSet \X ReportIds
    ELSE {<<"t1", "DRAFT", 1, 1>>}

Patches(user, report_id, TitleSet) ==
    IF report_id \in DOMAIN reports /\ can_update_report(user, reports[report_id])
    THEN [title : TitleSet \cup {None}, status : ReportStatus \cup {None}]
    ELSE {[title |-> None, status |-> None]}

CreateWalkReport(TitleSet, TimeSet) ==
    /\ Idle
    /\ \E user \in Users, event_id \in EventIds :
        \E b \in CreateBodies(user, event_id, TitleSet, TimeSet) :
            create_walk_report(user, event_id, b[1], b[2], b[3], b[4])

GetWalkReport ==
    /\ Idle
    /\ \E user \in Users, report_id \in ReportIds :
        get_walk_report(user, report_id)

UpdateWalkReport(TitleSet) ==
    /\ Idle
    /\ \E user \in Users, report_id \in ReportIds :
        \E patch \in Patches(user, report_id, TitleSet) :
            update_walk_report(user, report_id, patch)

DeleteWalkReport ==
    /\ Idle
    /\ \E user \in Users, report_id \in ReportIds :
        delete_walk_report(user, report_id)

(***************************************************************************)
(* Spec: the single-record operations on walk reports.  created_at decides *)
(* none of them and is held at one value.                                  *)
(***************************************************************************)
Next ==
    \/ CreateWalkReport(Titles, {1})
    \/ GetWalkReport
    \/ UpdateWalkReport(Titles)
    \/ DeleteWalkReport
    \/ Respond

Spec == Init /\ [][Next]_vars

(***************************************************************************)
(* SpecWalkList: list_walk_reports and list_event_reports with every       *)
(* filter, at the default page and size, over stores built by the write    *)
(* operations.                                                             *)
(***************************************************************************)
ListWalkReports(PageSet, SizeSet) ==
    /\ Idle
    /\ \E user \in Users, walk_event_id \in {None, "e1", "e2"},
          status_filter \in ReportStatus \cup {None},
          page \in PageSet, size \in SizeSet :
        list_walk_reports(user, walk_event_id, status_filter, page, size)

ListEventReports(PageSet, SizeSet) ==
    /\ Idle
    /\ \E user \in Users, event_id \in EventIds,
          page \in PageSet, size \in SizeSet :
        list_event_reports(user, event_id, page, size)

NextWalkList ==
    \/ CreateWalkReport({"t1"}, {1})
    \/ UpdateWalkReport({})
    \/ DeleteWalkReport
    \/ ListWalkReports({DefaultPage}, {DefaultSize})
    \/ ListEventReports({DefaultPage}, {DefaultSize})
    \/ Respond

SpecWalkList == Init /\ [][NextWalkList]_vars

(***************************************************************************)
(* SpecHealth: the health record operations, lists at the default page and *)
(* size.                                                                   *)
(***************************************************************************)
HealthBodies(user, dog_id) ==
    IF can_create_health_record(user) /\ dog_id \in DOMAIN dogs
    THEN Dates \X RecordIds
    ELSE {<<1, 1>>}

CreateHealthRecord ==
    /\ Idle
    /\ \E user \in Users, dog_id \in DogIds :
        \E b \in HealthBodies(user, dog_id) :
            create_health_record(user, dog_id, b[1], b[2])

ListHealthRecords(PageSet, SizeSet) ==
    /\ Idle
    /\ \E user \in Users, dog_id \in DogIds \cup {None},
          date_from \in Dates \cup {NoDate}, date_to \in Dates \cup {NoDate},
          page \in PageSet, size \in SizeSet :
        list_health_records(user, dog_id, date_from, date_to, page, size)

GetHealthRecord ==
    /\ Idle
    /\ \E user \in Users, record_id \in RecordIds :
        get_health_record(user, record_id)

NextHealth ==
    \/ CreateHealthRecord
    \/ ListHealthRecords({DefaultPage}, {DefaultSize})
    \/ GetHealthRecord
    \/ Respond

SpecHealth == Init /\ [][NextHealth]_vars

(***************************************************************************)
(* SpecCert: the certificate operations, lists at the default skip and     *)
(* limit.                                                                  *)
(***************************************************************************)
CertificateBodies(user) ==
    IF get_current_admin_user(user)
    THEN [dog_id : {"d1", "d2"}, cert_type : CertTypes, issuer : Issuers,
          expires_on : Dates \cup {NoDate}] \X CertIds
    ELSE {<<[dog_id |-> "d1", cert_type |-> "RABIES",
             issuer |-> <<"V", "e", "t">>, expires_on |-> NoDate], 1>>}

CertificatePatches(user, certificate_id) ==
    IF get_current_admin_user(user) /\ certificate_id \in DOMAIN certificates
    THEN [dog_id : {None, "d1", "d2"}, expires_on : Dates \cup {NoDate}]
    ELSE {[dog_id |-> None, expires_on |-> NoDate]}

CreateCertificate ==
    /\ Idle
    /\ \E user \in Users : \E b \in CertificateBodies(user) :
          create_certificate(user, b[1], b[2])

GetCertificates(SkipSet, LimitSet) ==
    /\ Idle
    /\ \E user \in Users, dog_id \in {None, "d1", "d2"},
          cert_type \in {None, "RABIES"}, issuer \in {<< >>, <<"E", "T">>},
          expires_after \in {NoDate, MaxDate}, expires_before \in {NoDate, 1},
          skip \in SkipSet, limit \in LimitSet :
        get_certificates(user, skip, limit, dog_id, cert_type, issuer,
                         expires_after, expires_before)

GetCertificate ==
    /\ Idle
    /\ \E user \in Users, certificate_id \in CertIds :
        get_certificate(user, certificate_id)

UpdateCertificate ==
    /\ Idle
    /\ \E user \in Users, certificate_id \in CertIds :
        \E patch \in CertificatePatches(user, certificate_id) :
            update_certificate(user, certificate_id, patch)

DeleteCertificate ==
    /\ Idle
    /\ \E user \in Users, certificate_id \in CertIds :
        delete_certificate(user, certificate_id)

NextCert ==
    \/ CreateCertificate
    \/ GetCertificates({DefaultSkip}, {DefaultLimit})
    \/ GetCertificate
    \/ UpdateCertificate
    \/ DeleteCertificate
    \/ Respond

SpecCert == Init /\ [][NextCert]_vars

(***************************************************************************)
(* SpecWalkRepeat: the walk report list at every page and size, with       *)
(* created_at drawn from Times, and the client free to send the request it *)
(* has just been answered once more.                                       *)
(***************************************************************************)
RepeatListWalkReports ==
    /\ resp.op = "list_walk_reports"
    /\ list_walk_reports(resp.user, resp.walk_event_id, resp.status,
                         resp.page, resp.size)

NextWalkRepeat ==
    \/ CreateWalkReport({"t1"}, Times)
    \/ UpdateWalkReport({})
    \/ DeleteWalkReport
    \/ ListWalkReports(Pages, Sizes)
    \/ RepeatListWalkReports
    \/ Respond

SpecWalkRepeat == Init /\ [][NextWalkRepeat]_vars

(***************************************************************************)
(* SpecPaging: the three page/size lists at every page and size of the     *)
(* bounds, over tables of up to MaxRows rows.  Walk reports and health     *)
(* records are separate tables that no operation reads or writes together, *)
(* so a behaviour fills one of them.  The rows differ in what the filters  *)
(* and the ORDER BY read: status and created_at, dog and record_date.      *)
(***************************************************************************)
CreatePagedReport ==
    /\ Idle
    /\ health_records = << >>
    /\ \E status \in {"PUBLIC", "PRIVATE"}, now \in Times, id \in PagedIds :
        create_walk_report("a1", "e1", "t1", status, now, id)

ListPagedReports ==
    /\ Idle
    /\ health_records = << >>
    /\ \E user \in Users, status_filter \in {None, "PUBLIC"},
          page \in Pages, size \in Sizes :
        list_walk_reports(user, None, status_filter, page, size)

ListPagedEventReports ==
    /\ Idle
    /\ health_records = << >>
    /\ \E user \in Users, event_id \in {"e0", "e1"},
          page \in Pages, size \in Sizes :
        list_event_reports(user, event_id, page, size)

CreatePagedRecord ==
    /\ Idle
    /\ reports = << >>
    /\ \E dog_id \in {"d1", "d2"}, record_date \in Dates, id \in PagedIds :
        create_health_record("a1", dog_id, record_date, id)

ListPagedRecords ==
    /\ Idle
    /\ reports = << >>
    /\ \E user \in Users, dog_id \in {None, "d1"},
          page \in Pages, size \in Sizes :
        list_health_records(user, dog_id, NoDate, NoDate, page, size)

NextPaging ==
    \/ CreatePagedReport
    \/ ListPagedReports
    \/ ListPagedEventReports
    \/ CreatePagedRecord
    \/ ListPagedRecords
    \/ Respond

SpecPaging == Init /\ [][NextPaging]_vars

(***************************************************************************)
(* SpecWrites: every operation that writes a walk report or a health       *)
(* record.  The two tables are written by separate operations that never   *)
(* read each other, so a behaviour fills one of them.                      *)
(***************************************************************************)
NextWrites ==
    \/ (health_records = << >> /\ CreateWalkReport(Titles, {1}))
    \/ (health_records = << >> /\ UpdateWalkReport(Titles))
    \/ (health_records = << >> /\ DeleteWalkReport)
    \/ (reports = << >> /\ CreateHealthRecord)
    \/ Respond

SpecWrites == Init /\ [][NextWrites]_vars

(***************************************************************************)
(* SpecListRace: a list_health_records request runs query by query while   *)
(* other requests create health records.                                   *)
(***************************************************************************)
StartListing(PageSet, SizeSet) ==
    \E user \in Users, dog_id \in {None, "d1", "d2"},
       page \in PageSet, size \in SizeSet :
        list_health_records_scope(user, dog_id, page, size)

CreateRecordMeanwhile ==
    /\ Idle
    /\ \E dog_id \in {"d1", "d2"}, id \in RecordIds :
        create_health_record("a1", dog_id, 1, id)

NextListRace ==
    \/ StartListing(Pages, Sizes)
    \/ list_health_records_access
    \/ list_health_records_count
    \/ list_health_records_fetch
    \/ list_health_records_reply
    \/ CreateRecordMeanwhile
    \/ Respond

SpecListRace == Init /\ [][NextListRace]_vars

(***************************************************************************)
(* SpecScopeRace: a list_health_records request runs query by query while  *)
(* dogs change owner.                                                      *)
(***************************************************************************)
TransferDog ==
    \E dog_id \in DOMAIN dogs, o \in Owners : transfer_dog(dog_id, o.id)

NextScopeRace ==
    \/ StartListing({DefaultPage}, {DefaultSize})
    \/ list_health_records_access
    \/ list_health_records_count
    \/ list_health_records_fetch
    \/ list_health_records_reply
    \/ CreateRecordMeanwhile
    \/ Respond
    \/ TransferDog

SpecScopeRace == Init /\ [][NextScopeRace]_vars

(***************************************************************************)
(* SpecBoundary: the four lists as the routes receive them, with the page, *)
(* size, skip and limit a caller may send, valid or not.  FastAPI answers  *)
(* 422 without calling the handler when a Query constraint fails.          *)
(***************************************************************************)
\* page: int = Query(1, ge=1), size: int = Query(10, ge=1, le=100)
valid_page_size(page, size) == page >= 1 /\ size >= 1 /\ size <= SizeLimit

\* skip: int = Query(0, ge=0), limit: int = Query(100, ge=1, le=1000)
valid_skip_limit(skip, limit) == skip >= 0 /\ limit >= 1 /\ limit <= LimitLimit

\* Sizes and limits at both sides of every bound of the two constraints.
BoundarySizes == {0, 1, SizeLimit, SizeLimit + 1, LimitLimit, LimitLimit + 1}

request_list_walk_reports(user, page, size) ==
    IF valid_page_size(page, size)
    THEN list_walk_reports(user, None, None, page, size)
    ELSE /\ resp' = [op |-> "list_walk_reports", user |-> user, code |-> 422,
                     asked |-> [page |-> page, size |-> size]]
         /\ UNCHANGED <<reports, health_records, certificates, dogs, listing>>

request_list_event_reports(user, event_id, page, size) ==
    IF valid_page_size(page, size)
    THEN list_event_reports(user, event_id, page, size)
    ELSE /\ resp' = [op |-> "list_event_reports", user |-> user, code |-> 422,
                     asked |-> [page |-> page, size |-> size]]
         /\ UNCHANGED <<reports, health_records, certificates, dogs, listing>>

request_list_health_records(user, page, size) ==
    IF valid_page_size(page, size)
    THEN list_health_records(user, None, NoDate, NoDate, page, size)
    ELSE /\ resp' = [op |-> "list_health_records", user |-> user, code |-> 422,
                     asked |-> [page |-> page, size |-> size]]
         /\ UNCHANGED <<reports, health_records, certificates, dogs, listing>>

request_get_certificates(user, skip, limit) ==
    IF valid_skip_limit(skip, limit)
    THEN get_certificates(user, skip, limit, None, None, << >>, NoDate, NoDate)
    ELSE /\ resp' = [op |-> "get_certificates", user |-> user, code |-> 422,
                     per_page |-> limit]
         /\ UNCHANGED <<reports, health_records, certificates, dogs, listing>>

RequestListWalkReports ==
    /\ Idle
    /\ \E user \in {"u1", "a1"}, page \in {0, 1}, size \in BoundarySizes :
        request_list_walk_reports(user, page, size)

RequestListEventReports ==
    /\ Idle
    /\ \E user \in {"u1", "a1"}, page \in {0, 1}, size \in BoundarySizes :
        request_list_event_reports(user, "e1", page, size)

RequestListHealthRecords ==
    /\ Idle
    /\ \E user \in {"u1", "a1"}, page \in {0, 1}, size \in BoundarySizes :
        request_list_health_records(user, page, size)

RequestGetCertificates ==
    /\ Idle
    /\ \E user \in {"u1", "a1"}, skip \in {-1, 0}, limit \in BoundarySizes :
        request_get_certificates(user, skip, limit)

CreateSomeReport ==
    /\ Idle
    /\ \E id \in ReportIds :
        create_walk_report("a1", "e1", "t1", "PUBLIC", 1, id)

CreateSomeRecord ==
    /\ Idle
    /\ \E id \in RecordIds : create_health_record("a1", "d1", 1, id)

CreateSomeCertificate ==
    /\ Idle
    /\ \E id \in CertIds :
        create_certificate("a1", [dog_id |-> "d1", cert_type |-> "RABIES",
                                  issuer |-> <<"V", "e", "t">>,
                                  expires_on |-> NoDate], id)

NextBoundary ==
    \/ CreateSomeReport
    \/ CreateSomeRecord
    \/ CreateSomeCertificate
    \/ RequestListWalkReports
    \/ RequestListEventReports
    \/ RequestListHealthRecords
    \/ RequestGetCertificates
    \/ Respond

SpecBoundary == Init /\ [][NextBoundary]_vars

(***************************************************************************)
(* SpecFailures: the write operations of the three routers with requests   *)
(* that end in 404, 403 or a failed commit as well as those that succeed.  *)
(* No operation reads or writes two of the tables, so a behaviour fills    *)
(* one of them.                                                            *)
(***************************************************************************)
CreateReportOrFail ==
    /\ Idle
    /\ health_records = << >> /\ certificates = << >>
    /\ \E user \in Users, event_id \in {"e0", "e1"} :
        \E id \in (IF can_create_report(user, event_id)
                   THEN ReportIds ELSE {1}) :
            create_walk_report(user, event_id, "t1", "DRAFT", 1, id)

\* Patches in which a field is absent, given, or given as null.
NullablePatches(user, report_id) ==
    IF report_id \in DOMAIN reports /\ can_update_report(user, reports[report_id])
    THEN [title : {None, "t2", Null}, status : {None, "PUBLIC", Null}]
    ELSE {[title |-> None, status |-> None]}

UpdateReportOrFail ==
    /\ Idle
    /\ health_records = << >> /\ certificates = << >>
    /\ \E user \in Users, report_id \in ReportIds :
        \E patch \in NullablePatches(user, report_id) :
            update_walk_report(user, report_id, patch)

DeleteReportOrFail ==
    /\ Idle
    /\ health_records = << >> /\ certificates = << >>
    /\ \E user \in Users, report_id \in ReportIds :
        delete_walk_report(user, report_id)

CreateRecordOrFail ==
    /\ Idle
    /\ reports = << >> /\ certificates = << >>
    /\ \E user \in Users, dog_id \in DogIds :
        \E id \in (IF can_create_health_record(user) /\ dog_id \in DOMAIN dogs
                   THEN RecordIds ELSE {1}) :
            create_health_record(user, dog_id, 1, id)

CreateCertificateOrFail ==
    /\ Idle
    /\ reports = << >> /\ health_records = << >>
    /\ \E user \in {"u1", "a1"} :
        \E id \in (IF get_current_admin_user(user) THEN CertIds ELSE {1}) :
            create_certificate(user, [dog_id |-> "d1", cert_type |-> "RABIES",
                                      issuer |-> <<"V", "e", "t">>,
                                      expires_on |-> NoDate], id)

NullableCertificatePatches(user, certificate_id) ==
    IF get_current_admin_user(user) /\ certificate_id \in DOMAIN certificates
    THEN [dog_id : {None, "d2", Null}, expires_on : {NoDate, 1}]
    ELSE {[dog_id |-> None, expires_on |-> NoDate]}

UpdateCertificateOrFail ==
    /\ Idle
    /\ reports = << >> /\ health_records = << >>
    /\ \E user \in {"u1", "a1"}, certificate_id \in CertIds :
        \E patch \in NullableCertificatePatches(user, certificate_id) :
            update_certificate(user, certificate_id, patch)

DeleteCertificateOrFail ==
    /\ Idle
    /\ reports = << >> /\ health_records = << >>
    /\ \E user \in {"u1", "a1"}, certificate_id \in CertIds :
        delete_certificate(user, certificate_id)

NextFailures ==
    \/ CreateReportOrFail
    \/ UpdateReportOrFail
    \/ DeleteReportOrFail
    \/ CreateRecordOrFail
    \/ CreateCertificateOrFail
    \/ UpdateCertificateOrFail
    \/ DeleteCertificateOrFail
    \/ Respond

SpecFailures == Init /\ [][NextFailures]_vars

(***************************************************************************)
(* SpecVisibility: the walk report lists of SpecWalkList together with     *)
(* get_walk_report, over stores built by create, update of the status and  *)
(* delete.                                                                 *)
(***************************************************************************)
NextVisibility ==
    \/ NextWalkList
    \/ GetWalkReport

SpecVisibility == Init /\ [][NextVisibility]_vars

(***************************************************************************)
(* SpecHealthAgain: list_health_records called again with the dog_id of    *)
(* the list before it, by any caller, while the response before it is      *)
(* still at hand.                                                          *)
(***************************************************************************)
ListHealthRecordsAgain ==
    /\ resp.op = "list_health_records"
    /\ \E user \in Users :
        list_health_records(user, resp.dog_id, NoDate, NoDate,
                            DefaultPage, DefaultSize)

NextHealthAgain ==
    \/ CreateRecordMeanwhile
    \/ ListHealthRecords({DefaultPage}, {DefaultSize})
    \/ ListHealthRecordsAgain
    \/ Respond

SpecHealthAgain == Init /\ [][NextHealthAgain]_vars

(***************************************************************************)
(* Properties of the single-record walk report operations (Spec).          *)
(***************************************************************************)
Elevated(user) == Role(user) \in {"ADMIN", "SUPER_ADMIN"}

Range(f) == {f[i] : i \in DOMAIN f}

\* C1: update_walk_report on an existing report succeeds iff the caller is the
\* report's author, whatever the caller's role; a caller who is not the author
\* is answered 403 and the store is left as it was.
C1_UpdateAuthorOnly ==
    [][(resp'.op = "update_walk_report" /\ resp'.id \in DOMAIN reports) =>
          /\ resp'.code \in {200, 403}
          /\ resp'.code = 200 <=>
                reports[resp'.id].author_user_id = resp'.user
          /\ resp'.code = 403 => reports' = reports]_vars

\* An admin who is not the author has been denied the update.
C1_Witness ==
    /\ resp.op = "update_walk_report"
    /\ resp.code = 403
    /\ resp.id \in DOMAIN reports
    /\ Elevated(resp.user)
    /\ reports[resp.id].author_user_id # resp.user

\* C2: delete_walk_report on an existing report succeeds, removing the
\* report, iff the caller is the author or has role ADMIN or SUPER_ADMIN;
\* otherwise the answer is 403 and the report is still in the store.
C2_DeleteAuthorOrAdmin ==
    [][(resp'.op = "delete_walk_report" /\ resp'.id \in DOMAIN reports) =>
          /\ resp'.code \in {200, 403}
          /\ resp'.code = 200 <=>
                \/ reports[resp'.id].author_user_id = resp'.user
                \/ Elevated(resp'.user)
          /\ resp'.code = 200 =>
                /\ resp'.id \notin DOMAIN reports'
                /\ \A i \in DOMAIN reports \ {resp'.id} :
                      i \in DOMAIN reports' /\ reports'[i] = reports[i]
          /\ resp'.code = 403 => reports' = reports]_vars

\* A USER who is not the author has been denied the delete and the report is
\* still in the store.
C2_Witness ==
    /\ resp.op = "delete_walk_report"
    /\ resp.code = 403
    /\ Role(resp.user) = "USER"
    /\ resp.id \in DOMAIN reports
    /\ reports[resp.id].author_user_id # resp.user

\* C3: get_walk_report on an existing report returns it iff it is PUBLIC, or
\* the caller is elevated, or the caller is its author; the only cells of the
\* role x authorship x status matrix that are denied are a non-elevated
\* non-author on a DRAFT or PRIVATE report.
C3_ViewMatrix ==
    (resp.op = "get_walk_report" /\ resp.id \in DOMAIN reports) =>
        /\ resp.code \in {200, 403}
        /\ resp.code = 200 <=>
              \/ reports[resp.id].status = "PUBLIC"
              \/ Elevated(resp.user)
              \/ reports[resp.id].author_user_id = resp.user
        /\ resp.code = 403 <=>
              /\ Role(resp.user) = "USER"
              /\ reports[resp.id].author_user_id # resp.user
              /\ reports[resp.id].status \in {"DRAFT", "PRIVATE"}
        /\ resp.code = 200 => resp.body = reports[resp.id]

\* The approved participant u1 of event e1 has been denied a non-public
\* report of e1 written by somebody else.
C3_Witness ==
    /\ resp.op = "get_walk_report"
    /\ resp.code = 403
    /\ resp.user = "u1"
    /\ resp.id \in DOMAIN reports
    /\ reports[resp.id].walk_event_id = "e1"
    /\ reports[resp.id].status = "PRIVATE"

\* The three conditions of C5, read off the tables.
MayCreateReport(user, event_id) ==
    \/ Elevated(user)
    \/ \E e \in WalkEvents : e.id = event_id /\ e.created_by_user_id = user
    \/ \E o \in Owners, p \in WalkParticipants :
          /\ o.user_id = user
          /\ p.owner_id = o.id
          /\ p.event_id = event_id
          /\ p.status = "APPROVED"

\* C5: create_walk_report for an existing event succeeds iff the caller is
\* elevated, or created the event, or has an Owner with an APPROVED
\* participation in it; a caller meeting none is answered 403 and no report
\* is created.
C5_CreateConditions ==
    [][(resp'.op = "create_walk_report"
          /\ \E e \in WalkEvents : e.id = resp'.walk_event_id) =>
          /\ resp'.code \in {200, 403}
          /\ resp'.code = 200 <=> MayCreateReport(resp'.user, resp'.walk_event_id)
          /\ resp'.code = 403 => reports' = reports
          /\ resp'.code = 200 =>
                /\ resp'.id \notin DOMAIN reports
                /\ DOMAIN reports' = DOMAIN reports \cup {resp'.id}
                /\ reports'[resp'.id].walk_event_id = resp'.walk_event_id
                /\ \A i \in DOMAIN reports : reports'[i] = reports[i]]_vars

\* u3, whose participation in e1 is PENDING, has been denied; the store holds
\* a report by the approved participant u1 and one by the event creator u2.
C5_Witness ==
    /\ resp.op = "create_walk_report"
    /\ resp.code = 403
    /\ resp.user = "u3"
    /\ resp.walk_event_id = "e1"
    /\ \E i \in DOMAIN reports : reports[i].author_user_id = "u1"
    /\ \E i \in DOMAIN reports : reports[i].author_user_id = "u2"

(***************************************************************************)
(* Properties of the walk report lists (SpecWalkList).                     *)
(***************************************************************************)
\* The reports list_walk_reports is to match for the request in resp.
C4_Expected ==
    {i \in DOMAIN reports :
        /\ resp.walk_event_id = None
              \/ reports[i].walk_event_id = resp.walk_event_id
        /\ resp.status = None \/ reports[i].status = resp.status
        /\ Elevated(resp.user)
              \/ reports[i].status = "PUBLIC"
              \/ reports[i].author_user_id = resp.user}

\* C4: for a caller who is not elevated, list_walk_reports returns and counts
\* exactly the reports that pass the explicit filters AND the visibility
\* disjunction (PUBLIC or written by the caller), so with status PRIVATE or
\* DRAFT every item is the caller's own; for an elevated caller only the
\* explicit filters apply.
C4_StatusFilterIntersected ==
    resp.op = "list_walk_reports" =>
        /\ Range(resp.items) \subseteq C4_Expected
        /\ resp.total = Cardinality(C4_Expected)
        /\ (~ Elevated(resp.user) /\ resp.status \in {"PRIVATE", "DRAFT"}) =>
              \A n \in DOMAIN resp.items :
                  reports[resp.items[n]].author_user_id = resp.user

\* u1 asked for status PRIVATE while somebody else's PRIVATE report was in the
\* store, and got exactly its own one.
C4_Witness ==
    /\ resp.op = "list_walk_reports"
    /\ resp.user = "u1"
    /\ resp.status = "PRIVATE"
    /\ resp.walk_event_id = None
    /\ Len(resp.items) = 1
    /\ \E i \in DOMAIN reports :
          reports[i].status = "PRIVATE" /\ reports[i].author_user_id # "u1"

(***************************************************************************)
(* Properties of the health record operations (SpecHealth).                *)
(***************************************************************************)
\* The dogs whose owner_id is the Owner linked to the user.
Scope(user) ==
    {d \in DOMAIN dogs : \E o \in Owners : o.user_id = user /\ dogs[d] = o.id}

\* C6: get_health_record on an existing record returns it to an elevated
\* caller, and to any other caller iff the record's dog is one of the caller's
\* dogs, whoever wrote the record; a record outside the caller's scope gives
\* 403, never 404.
C6_HealthRecordView ==
    (resp.op = "get_health_record" /\ resp.id \in DOMAIN health_records) =>
        /\ resp.code \in {200, 403}
        /\ Elevated(resp.user) => resp.code = 200
        /\ ~ Elevated(resp.user) =>
              (resp.code = 200 <=>
                  health_records[resp.id].dog_id \in Scope(resp.user))
        /\ resp.code = 200 => resp.body = health_records[resp.id]

\* u1, who owns d1 only, has been answered 403 for an existing record of d2.
C6_Witness ==
    /\ resp.op = "get_health_record"
    /\ resp.user = "u1"
    /\ resp.code = 403
    /\ resp.id \in DOMAIN health_records
    /\ health_records[resp.id].dog_id = "d2"

\* C7: create_health_record adds a record only for a caller with role ADMIN
\* or SUPER_ADMIN: a USER is answered 403 and the store is left as it was, so
\* no record in the store was written by a USER.
C7_HealthCreateStaffOnly ==
    [][resp'.op = "create_health_record" =>
          /\ Role(resp'.user) = "USER" =>
                resp'.code = 403 /\ health_records' = health_records
          /\ health_records' # health_records =>
                /\ Elevated(resp'.user)
                /\ resp'.code = 200
                /\ \A i \in DOMAIN health_records' :
                      Elevated(health_records'[i].author_user_id)]_vars

\* u1 has been denied a health record for its own dog d1.
C7_Witness ==
    /\ resp.op = "create_health_record"
    /\ resp.user = "u1"
    /\ resp.dog_id = "d1"
    /\ resp.dog_id \in Scope("u1")
    /\ resp.code = 403
    /\ health_records # << >>

\* The records list_health_records is to match for the request in resp.
C8_Expected ==
    {i \in DOMAIN health_records :
        /\ health_records[i].dog_id \in Scope(resp.user)
        /\ resp.dog_id = None \/ health_records[i].dog_id = resp.dog_id
        /\ resp.date_from = NoDate
              \/ health_records[i].record_date >= resp.date_from
        /\ resp.date_to = NoDate
              \/ health_records[i].record_date <= resp.date_to}

\* C8: for a USER, every record list_health_records returns or counts is of a
\* dog in the caller's scope; a USER with no Owner, or with an Owner that has
\* no dog, gets items [], total 0, pages 1 whatever the filters, never an
\* error.
C8_HealthListScoped ==
    (resp.op = "list_health_records" /\ Role(resp.user) = "USER") =>
        /\ resp.code = 200 =>
              /\ \A n \in DOMAIN resp.items :
                    health_records[resp.items[n]].dog_id \in Scope(resp.user)
              /\ Range(resp.items) \subseteq C8_Expected
              /\ resp.total = Cardinality(C8_Expected)
        /\ Scope(resp.user) = {} =>
              /\ resp.code = 200
              /\ resp.items = << >>
              /\ resp.total = 0
              /\ resp.pages = 1

\* u2, who has no Owner, asked for the records of d1 while d1 had one, and
\* got the empty page.
C8_Witness ==
    /\ resp.op = "list_health_records"
    /\ resp.user = "u2"
    /\ resp.dog_id = "d1"
    /\ resp.code = 200
    /\ resp.total = 0
    /\ \E i \in DOMAIN health_records : health_records[i].dog_id = "d1"

(***************************************************************************)
(* Properties of the certificate operations (SpecCert).                    *)
(***************************************************************************)
\* C9: a caller who is not elevated gets from get_certificates, as items and
\* in total, only certificates of dogs in the caller's scope, and from
\* get_certificate a certificate only if its dog is in that scope.
C9_CertificatesScoped ==
    /\ (resp.op = "get_certificate" /\ resp.code = 200
          /\ ~ Elevated(resp.user)) =>
            resp.body.dog_id \in Scope(resp.user)
    /\ (resp.op = "get_certificates" /\ ~ Elevated(resp.user)) =>
          /\ \A n \in DOMAIN resp.items :
                certificates[resp.items[n]].dog_id \in Scope(resp.user)
          /\ resp.total <=
                Cardinality({i \in DOMAIN certificates :
                                certificates[i].dog_id \in Scope(resp.user)})

(***************************************************************************)
(* Properties of repeated lists (SpecWalkRepeat).                          *)
(***************************************************************************)
\* C10: the same list call, by the same principal with the same filters, page
\* and size on unchanged data, returns the same sequence of ids again.
C10_ListIdempotent ==
    [][(/\ resp.op = "list_walk_reports"
        /\ resp'.op = "list_walk_reports"
        /\ resp'.user = resp.user
        /\ resp'.walk_event_id = resp.walk_event_id
        /\ resp'.status = resp.status
        /\ resp'.page = resp.page
        /\ resp'.size = resp.size
        /\ reports' = reports) =>
          resp'.items = resp.items]_vars

(***************************************************************************)
(* Properties of paging (SpecPaging).                                      *)
(***************************************************************************)
\* The rows the list call in resp is to match: the explicit filters of the
\* request, and for a caller who is not elevated the visibility rule of the
\* table.
Matching ==
    CASE resp.op = "list_walk_reports" -> C4_Expected
      [] resp.op = "list_event_reports" ->
            {i \in DOMAIN reports :
                /\ reports[i].walk_event_id = resp.walk_event_id
                /\ Elevated(resp.user)
                      \/ reports[i].status = "PUBLIC"
                      \/ reports[i].author_user_id = resp.user}
      [] resp.op = "list_health_records" ->
            {i \in DOMAIN health_records :
                /\ Elevated(resp.user)
                      \/ health_records[i].dog_id \in Scope(resp.user)
                /\ resp.dog_id = None
                      \/ health_records[i].dog_id = resp.dog_id
                /\ resp.date_from = NoDate
                      \/ health_records[i].record_date >= resp.date_from
                /\ resp.date_to = NoDate
                      \/ health_records[i].record_date <= resp.date_to}
      [] OTHER -> {}

\* A page/size list has answered.
Listed ==
    /\ resp.op \in {"list_walk_reports", "list_event_reports",
                    "list_health_records"}
    /\ resp.code = 200

\* C11: a response of list_walk_reports, list_event_reports or
\* list_health_records carries the page and the size that were asked for,
\* total is the number of rows matching the request, and pages is
\* ceil(total / size) when total > 0 and 1 when total = 0.
C11_PageMetadata ==
    Listed =>
        /\ resp.page = resp.asked.page
        /\ resp.size = resp.asked.size
        /\ resp.total = Cardinality(Matching)
        /\ resp.total > 0 =>
              /\ resp.pages * resp.size >= resp.total
              /\ (resp.pages - 1) * resp.size < resp.total
        /\ resp.total = 0 => resp.pages = 1

\* u1 asked list_health_records for page 1 in pages of 2 while three records
\* of u1's dog d1 were in the table: total 3, pages 2.
C11_Witness ==
    /\ resp.op = "list_health_records"
    /\ resp.user = "u1"
    /\ resp.code = 200
    /\ resp.asked = [page |-> 1, size |-> 2]
    /\ Cardinality({i \in DOMAIN health_records :
                       health_records[i].dog_id = "d1"}) = 3
    /\ resp.total = 3
    /\ resp.pages = 2

Min(a, b) == IF a < b THEN a ELSE b

Max(a, b) == IF a > b THEN a ELSE b

\* Row a may not come after row b in the list in resp: newer reports first,
\* later record dates first and among equal dates the larger id first.
Precedes(a, b) ==
    IF resp.op = "list_health_records"
    THEN \/ health_records[a].record_date > health_records[b].record_date
         \/ /\ health_records[a].record_date = health_records[b].record_date
            /\ a > b
    ELSE reports[a].created_at > reports[b].created_at

\* The matching rows in every order the list in resp may give them.
OrderedMatching ==
    {rows \in Arrangements(Matching) :
        \A i, j \in DOMAIN rows : Precedes(rows[i], rows[j]) => i < j}

\* C12: a list for page p and size s returns min(s, max(0, total - (p-1)*s))
\* items, the rows at positions (p-1)*s .. (p-1)*s + s - 1 of the ordered
\* matching rows; a page beyond the last is answered with no items and with
\* the total and pages of the in-range pages, not with an error.
C12_PageWindow ==
    Listed =>
        LET offset == (resp.asked.page - 1) * resp.asked.size
            count == Min(resp.asked.size, Max(0, resp.total - offset))
        IN  /\ Len(resp.items) = count
            /\ \E rows \in OrderedMatching :
                  resp.items = [n \in 1..count |-> rows[offset + n]]
            /\ offset >= Cardinality(Matching) =>
                  /\ resp.items = << >>
                  /\ resp.total = Cardinality(Matching)
                  /\ resp.pages =
                        Max(1, (resp.total + resp.size - 1) \div resp.size)

\* s1 asked list_walk_reports for page 2 in pages of 2 while three reports
\* were in the table, and got the one report that is third in the order.
C12_Witness ==
    /\ resp.op = "list_walk_reports"
    /\ resp.user = "s1"
    /\ resp.status = None
    /\ resp.asked = [page |-> 2, size |-> 2]
    /\ Cardinality(DOMAIN reports) = 3
    /\ resp.total = 3
    /\ Len(resp.items) = 1
    /\ \A i \in DOMAIN reports :
          reports[i].created_at >= reports[resp.items[1]].created_at

(***************************************************************************)
(* Order of the existence check and the authorization check.               *)
(***************************************************************************)
\* C13: an operation that targets a record, an event or a dog by id answers
\* 404 whenever that target does not exist, whoever the caller is: existence
\* is checked before authorization.
C13_ExistenceFirst ==
    [][/\ (/\ resp'.op \in {"get_walk_report", "update_walk_report",
                            "delete_walk_report"}
           /\ resp'.id \notin DOMAIN reports) => resp'.code = 404
       /\ (/\ resp'.op = "create_walk_report"
           /\ EventRows(resp'.walk_event_id) = {}) => resp'.code = 404
       /\ (/\ resp'.op = "get_health_record"
           /\ resp'.id \notin DOMAIN health_records) => resp'.code = 404
       /\ (/\ resp'.op = "create_health_record"
           /\ resp'.dog_id \notin DOMAIN dogs) => resp'.code = 404
       /\ (/\ resp'.op \in {"update_certificate", "delete_certificate"}
           /\ resp'.id \notin DOMAIN certificates) => resp'.code = 404]_vars

(***************************************************************************)
(* Properties of the write operations (SpecWrites).                        *)
(***************************************************************************)
\* C14: a walk report or health record enters its table only by a create
\* call, with author_user_id the principal that made the call, and no later
\* create, update or delete changes the author_user_id of a row that stays.
C14_AuthorImmutable ==
    [][/\ \A i \in DOMAIN reports' :
            IF i \in DOMAIN reports
            THEN reports'[i].author_user_id = reports[i].author_user_id
            ELSE /\ resp'.op = "create_walk_report"
                 /\ resp'.code = 200
                 /\ resp'.id = i
                 /\ reports'[i].author_user_id = resp'.user
       /\ \A i \in DOMAIN health_records' :
            IF i \in DOMAIN health_records
            THEN health_records'[i].author_user_id =
                    health_records[i].author_user_id
            ELSE /\ resp'.op = "create_health_record"
                 /\ resp'.code = 200
                 /\ resp'.id = i
                 /\ health_records'[i].author_user_id = resp'.user]_vars

\* u1 updated the title and the status of a report that u1 wrote on the
\* event of a1, and is still its author.
C14_Witness ==
    /\ resp.op = "update_walk_report"
    /\ resp.user = "u1"
    /\ resp.code = 200
    /\ reports[resp.id].walk_event_id = "e1"
    /\ reports[resp.id].title = "t2"
    /\ reports[resp.id].status = "PUBLIC"
    /\ reports[resp.id].author_user_id = "u1"

(***************************************************************************)
(* Properties of a list request whose queries interleave with other        *)
(* requests (SpecScopeRace, SpecListRace).                                 *)
(***************************************************************************)
\* C15: in list_health_records called by a USER with a dog_id filter, the
\* dogs the access check looked the dog up in are the dogs of the IN filter:
\* the scope is resolved once for the request.
C15_ScopeResolvedOnce ==
    (listing.pc # "none" /\ listing.checked) =>
        listing.user_dogs = listing.dog_ids

\* C16: the items of a list response are as many as its total, page and
\* size say, min(size, max(0, total - (page-1)*size)), whatever other
\* requests wrote while the list was served.
C16_TotalAndItemsAgree ==
    (listing.pc = "done" /\ listing.code = 200) =>
        Len(listing.items) =
            Min(listing.size,
                Max(0, listing.total - (listing.page - 1) * listing.size))

(***************************************************************************)
(* Properties of the list routes (SpecBoundary, SpecCert).                 *)
(***************************************************************************)
\* The page size the list request in resp asked for.
RequestedSize ==
    IF resp.op = "get_certificates" THEN resp.per_page ELSE resp.asked.size

\* C17: every list route answers a page size above 100 or below 1 with a
\* validation error, and no list response has more than 100 items.
C17_SizeRejectedAbove100 ==
    resp.op \in {"list_walk_reports", "list_event_reports",
                 "list_health_records", "get_certificates"} =>
        /\ (RequestedSize > 100 \/ RequestedSize < 1) => resp.code = 422
        /\ resp.code = 200 => Len(resp.items) <= 100

\* C19: get_certificates reports pages = ceil(total / limit) when something
\* matches and pages = 1 when nothing does.
C19_CertificatePages ==
    (resp.op = "get_certificates" /\ resp.code = 200) =>
        /\ resp.total > 0 =>
              /\ resp.pages * resp.per_page >= resp.total
              /\ (resp.pages - 1) * resp.per_page < resp.total
        /\ resp.total = 0 => resp.pages = 1

(***************************************************************************)
(* Properties of writes that fail (SpecFailures).                          *)
(***************************************************************************)
\* C18: a create, update or delete that does not succeed, because it ends in
\* 404, in 403 or in a commit the table refuses, leaves every table as it
\* was; in particular an update that fails keeps none of its fields.
C18_FailedWriteChangesNothing ==
    [][(/\ resp'.op \in {"create_walk_report", "update_walk_report",
                         "delete_walk_report", "create_health_record",
                         "create_certificate", "update_certificate",
                         "delete_certificate"}
        /\ resp'.code # 200) =>
            /\ reports' = reports
            /\ health_records' = health_records
            /\ certificates' = certificates]_vars

\* u1 asked for title t2 and a null status on its own report; the commit
\* failed and the report still has the title and status it had.
C18_Witness ==
    /\ resp.op = "update_walk_report"
    /\ resp.user = "u1"
    /\ resp.code = 500
    /\ resp.patch = [title |-> "t2", status |-> Null]
    /\ reports[resp.id].author_user_id = "u1"
    /\ reports[resp.id].title = "t1"
    /\ reports[resp.id].status = "DRAFT"

(***************************************************************************)
(* Agreement of the lists and get_walk_report (SpecVisibility).            *)
(***************************************************************************)
\* C20: for every principal and every report in the table, the report is
\* matched by list_walk_reports without filters, and by list_event_reports
\* of its event, exactly when get_walk_report of it by that principal
\* succeeds: a get answers 200 exactly for the reports both lists match, and
\* a list that shows all it matches shows exactly the reports a get by the
\* caller is allowed; so a report that is PRIVATE or DRAFT is in no list and
\* no get of a caller who is neither elevated nor its author.
C20_ListAndGetAgree ==
    /\ (resp.op = "get_walk_report" /\ resp.id \in DOMAIN reports) =>
          /\ resp.code = 200 <=>
                resp.id \in list_walk_reports_query(resp.user, None, None)
          /\ resp.code = 200 <=>
                resp.id \in list_event_reports_query(
                                resp.user, reports[resp.id].walk_event_id)
    /\ (/\ resp.op = "list_walk_reports"
        /\ resp.walk_event_id = None /\ resp.status = None
        /\ resp.page = 1 /\ resp.total <= resp.size) =>
          Range(resp.items) =
              {i \in DOMAIN reports : can_view_report(resp.user, reports[i])}
    /\ (/\ resp.op = "list_event_reports" /\ resp.code = 200
        /\ resp.page = 1 /\ resp.total <= resp.size) =>
          Range(resp.items) =
              {i \in DOMAIN reports :
                  /\ reports[i].walk_event_id = resp.walk_event_id
                  /\ can_view_report(resp.user, reports[i])}
    /\ resp.op \in {"list_walk_reports", "list_event_reports"} =>
          \A i \in DOMAIN reports :
              (/\ reports[i].status \in {"PRIVATE", "DRAFT"}
               /\ reports[i].author_user_id # resp.user
               /\ ~ Elevated(resp.user)) =>
                  (resp.code = 200 => i \notin Range(resp.items))

\* u3 listed the reports of event e1 while u1 had a PRIVATE and a PUBLIC
\* report on it, and got the PUBLIC one alone.
C20_Witness ==
    /\ resp.op = "list_event_reports"
    /\ resp.user = "u3"
    /\ resp.walk_event_id = "e1"
    /\ resp.code = 200
    /\ Len(resp.items) = 1
    /\ reports[resp.items[1]].status = "PUBLIC"
    /\ \E i \in DOMAIN reports :
          /\ reports[i].walk_event_id = "e1"
          /\ reports[i].author_user_id = "u1"
          /\ reports[i].status = "PRIVATE"

(***************************************************************************)
(* Uniform answer to a dog_id filter outside the scope (SpecHealthAgain).  *)
(***************************************************************************)
\* C21: two USER callers that ask list_health_records for the same dog, a
\* dog in the scope of neither, get the same kind of response, both the
\* empty page or both 403, whether or not they own some other dog.
C21_UniformOutsideScope ==
    [][(/\ resp.op = "list_health_records"
        /\ resp'.op = "list_health_records"
        /\ Role(resp.user) = "USER" /\ Role(resp'.user) = "USER"
        /\ resp.dog_id # None
        /\ resp'.dog_id = resp.dog_id
        /\ resp.dog_id \notin Scope(resp.user)
        /\ resp.dog_id \notin Scope(resp'.user)) =>
            resp'.code = resp.code]_vars

====
